---- MODULE Spec2Model ----
(***************************************************************************)
(* Model of status_tracker.py: an Atom status-feed watcher.  A single      *)
(* coroutine (AtomStatusWatcher.run_forever) polls the feed with a         *)
(* conditional GET, deduplicates entries by an identity key, classifies    *)
(* each new entry against PRODUCT_PATTERNS and prints a notification.      *)
(*                                                                         *)
(* Python strings are modelled as sequences of one-character strings, so   *)
(* that concatenation, substring search and the regular expressions of     *)
(* strip_html are computed character by character.                         *)
(***************************************************************************)
EXTENDS Integers, Sequences, FiniteSets, Bags, TLC

(***************************************************************************)
(* Strings                                                                 *)
(***************************************************************************)

\* Python's None for Optional[str] fields: a value no string equals
\* (every element of a string is a single character).
None == << "<None>" >>

\* The empty Python string.
Empty == << >>

\* bool(s) of an Optional[str]: None and "" are falsy.
Truthy(s) == s # None /\ s # Empty

\* Characters matched by \s and removed by str.strip().
Whitespace == {" ", "\t", "\n"}

UpperCase == << "A", "B", "C", "D", "E", "F", "G", "H", "I", "J", "K", "L", "M",
                "N", "O", "P", "Q", "R", "S", "T", "U", "V", "W", "X", "Y", "Z" >>

LowerCase == << "a", "b", "c", "d", "e", "f", "g", "h", "i", "j", "k", "l", "m",
                "n", "o", "p", "q", "r", "s", "t", "u", "v", "w", "x", "y", "z" >>

\* str.lower() on one character.
LowerChar(c) ==
    IF \E i \in 1..Len(UpperCase) : UpperCase[i] = c
    THEN LowerCase[CHOOSE i \in 1..Len(UpperCase) : UpperCase[i] = c]
    ELSE c

\* str.lower()
Lower(s) == [i \in 1..Len(s) |-> LowerChar(s[i])]

\* s.startswith(p, i-1)
MatchAt(s, p, i) ==
    /\ i + Len(p) - 1 <= Len(s)
    /\ \A k \in 1..Len(p) : s[i + k - 1] = p[k]

\* needle in s
Contains(s, needle) == \E i \in 1..(Len(s) + 1) : MatchAt(s, needle, i)

\* str.strip(): drop leading and trailing whitespace
Strip(s) ==
    LET keep == {i \in 1..Len(s) : s[i] \notin Whitespace}
    IN  IF keep = {} THEN Empty
        ELSE LET lo == CHOOSE i \in keep : \A j \in keep : i <= j
                 hi == CHOOSE i \in keep : \A j \in keep : j <= i
             IN  SubSeq(s, lo, hi)

(***************************************************************************)
(* strip_html                                                              *)
(***************************************************************************)

\* Position of the first ">" at or after i, or 0 when there is none.
FirstGt(s, i) ==
    LET gts == {j \in i..Len(s) : s[j] = ">"}
    IN  IF gts = {} THEN 0 ELSE CHOOSE j \in gts : \A k \in gts : j <= k

\* re.sub(r"<[^>]+>", " ", text), scanning from position i: a match starts
\* at a "<" followed by at least one character other than ">" and ends at
\* the first ">" after them; matches are leftmost and do not overlap.
RECURSIVE SubTags(_, _)
SubTags(s, i) ==
    IF i > Len(s) THEN Empty
    ELSE LET j == FirstGt(s, i + 1)
         IN  IF s[i] = "<" /\ j >= i + 2
             THEN << " " >> \o SubTags(s, j + 1)
             ELSE << s[i] >> \o SubTags(s, i + 1)

Nbsp == << "&", "n", "b", "s", "p", ";" >>

\* SubNbsp with the entity deleted instead of replaced by a space.
RECURSIVE SubNbsp_Delete(_, _)
SubNbsp_Delete(s, i) ==
    IF i > Len(s) THEN Empty
    ELSE IF MatchAt(s, Nbsp, i)
         THEN SubNbsp_Delete(s, i + Len(Nbsp))
         ELSE << s[i] >> \o SubNbsp_Delete(s, i + 1)

\* re.sub(r"&nbsp;", " ", text), scanning from position i.
RECURSIVE SubNbsp(_, _)
SubNbsp(s, i) ==
    IF i > Len(s) THEN Empty
    ELSE IF MatchAt(s, Nbsp, i)
         THEN << " " >> \o SubNbsp(s, i + Len(Nbsp))
         ELSE << s[i] >> \o SubNbsp(s, i + 1)

\* re.sub(r"\s+", " ", text), scanning from position i: every maximal run
\* of whitespace becomes one space.
RECURSIVE SubSpaces(_, _)
SubSpaces(s, i) ==
    IF i > Len(s) THEN Empty
    ELSE IF s[i] \in Whitespace
         THEN IF i > 1 /\ s[i - 1] \in Whitespace
              THEN SubSpaces(s, i + 1)
              ELSE << " " >> \o SubSpaces(s, i + 1)
         ELSE << s[i] >> \o SubSpaces(s, i + 1)

strip_html(text) == Strip(SubSpaces(SubNbsp(SubTags(text, 1), 1), 1))

(***************************************************************************)
(* detect_product_and_message                                              *)
(***************************************************************************)

\* The ordered (needle, label) table.  Labels are opaque outputs and are
\* kept as plain strings; needles are searched for, so they are character
\* sequences.
PRODUCT_PATTERNS == <<
    << << "c", "h", "a", "t", "/", "c", "o", "m", "p", "l", "e", "t", "i", "o", "n", "s" >>,
       "OpenAI API - Chat Completions" >>,
    << << "c", "h", "a", "t", " ", "c", "o", "m", "p", "l", "e", "t", "i", "o", "n", "s" >>,
       "OpenAI API - Chat Completions" >>,
    << << "r", "e", "s", "p", "o", "n", "s", "e", "s", " ", "a", "p", "i" >>,
       "OpenAI API - Responses" >>,
    << << "a", "s", "s", "i", "s", "t", "a", "n", "t", "s", " ", "a", "p", "i" >>,
       "OpenAI API - Assistants" >>,
    << << "r", "e", "a", "l", "t", "i", "m", "e", " ", "a", "p", "i" >>,
       "OpenAI API - Realtime" >>,
    << << "f", "i", "l", "e", "s", " ", "a", "p", "i" >>,
       "OpenAI API - Files" >>,
    << << "f", "i", "l", "e", " ", "a", "p", "i" >>,
       "OpenAI API - Files" >>,
    << << "e", "m", "b", "e", "d", "d", "i", "n", "g", "s", " ", "a", "p", "i" >>,
       "OpenAI API - Embeddings" >>,
    << << "e", "m", "b", "e", "d", "d", "i", "n", "g", "s" >>,
       "OpenAI API - Embeddings" >>,
    << << "f", "i", "n", "e", "-", "t", "u", "n", "i", "n", "g", " ", "a", "p", "i" >>,
       "OpenAI API - Fine-tuning" >>,
    << << "f", "i", "n", "e", " ", "t", "u", "n", "i", "n", "g", " ", "a", "p", "i" >>,
       "OpenAI API - Fine-tuning" >>,
    << << "o", "p", "e", "n", "a", "i", " ", "a", "p", "i" >>,
       "OpenAI API" >>
>>

\* The needle of the generic fallback and its label.
ApiNeedle == << "a", "p", "i" >>

GenericLabel == "OpenAI API"

\* Python's None in the product position of the returned tuple.
NoProduct == "<None>"

\* MessageOf without the title to fall back on: body.strip()
MessageOf_BodyOnly(title, body) == Strip(body)

\* body.strip() or title.strip()
MessageOf(title, body) ==
    IF Strip(body) # Empty THEN Strip(body) ELSE Strip(title)

\* f"{title} {body}".lower()
FullText(title, body) == Lower(title \o << " " >> \o body)

\* detect_product_and_message with the scan of the table not stopped at the
\* first needle found: the last one found decides.
detect_product_and_message_LastMatch(title, body) ==
    LET full_text == FullText(title, body)
        hits == {i \in 1..Len(PRODUCT_PATTERNS) :
                    Contains(full_text, PRODUCT_PATTERNS[i][1])}
    IN  IF hits # {}
        THEN LET last == CHOOSE i \in hits : \A j \in hits : j <= i
             IN  [product |-> PRODUCT_PATTERNS[last][2],
                  message |-> MessageOf(title, body)]
        ELSE IF Contains(full_text, ApiNeedle)
             THEN [product |-> GenericLabel, message |-> MessageOf(title, body)]
             ELSE [product |-> NoProduct, message |-> None]

\* The (product, message) tuple returned for a title and a cleaned body.
detect_product_and_message(title, body) ==
    LET full_text == FullText(title, body)
        hits == {i \in 1..Len(PRODUCT_PATTERNS) :
                    Contains(full_text, PRODUCT_PATTERNS[i][1])}
    IN  IF hits # {}
        THEN LET first == CHOOSE i \in hits : \A j \in hits : i <= j
             IN  [product |-> PRODUCT_PATTERNS[first][2],
                  message |-> MessageOf(title, body)]
        ELSE IF Contains(full_text, ApiNeedle)
             THEN [product |-> GenericLabel, message |-> MessageOf(title, body)]
             ELSE [product |-> NoProduct, message |-> None]

(***************************************************************************)
(* Bounds and the feed universe                                            *)
(***************************************************************************)

\* Longest feed document, in entries.
MaxDocLen == 2

\* Number of versions of the feed the server publishes.
MaxVersions == 2

Entry(id, updated, title, summary, content) ==
    [id |-> id, updated |-> updated, title |-> title,
     summary |-> summary, content |-> content]

\* The entries a feed document is built from: an incident and its edit
\* (same id, later timestamp), two entries without id and timestamp, and
\* two entries whose id alone, or timestamp alone, spells the "id|updated"
\* of another entry.
EntryPool == {
    Entry(<< "1" >>, << "t" >>, << "A", "P", "I" >>, Empty, Empty),
    Entry(<< "1" >>, << "u" >>, << "x" >>, << "<", "b", ">", "h", "i" >>, Empty),
    Entry(Empty, Empty, << "f", "i", "l", "e" >>, Empty, << "A", "p", "i", "&", "n", "b", "s", "p", ";" >>),
    Entry(Empty, Empty, << "x" >>, Empty, Empty),
    Entry(<< "1", "|", "t" >>, Empty, << "a", "p", "i" >>, << "<", "b", ">" >>, Empty),
    Entry(Empty, << "1", "|", "u" >>, << "A", "P", "I" >>, Empty, Empty)
}

\* A response body: XML that parses into a list of entries (newest first),
\* or XML that ET.fromstring rejects.
Body(entries) == [xml |-> "well_formed", entries |-> entries]

Malformed == [xml |-> "malformed", entries |-> << >>]

Bodies ==
    {Body(es) : es \in UNION {[1..n -> EntryPool] : n \in 0..MaxDocLen}}
        \cup {Malformed}

Digits == << "0", "1", "2", "3", "4", "5", "6", "7", "8", "9" >>

\* The validators the server assigns to version v of the feed.
TagOf(v) == << "e", Digits[v + 1] >>

StampOf(v) == << "m", Digits[v + 1] >>

(***************************************************************************)
(* State                                                                   *)
(***************************************************************************)

VARIABLES
    pc,             \* where run_forever stands
    etag,           \* self.etag
    last_modified,  \* self.last_modified
    seen_keys,      \* self.seen_keys
    request,        \* conditional headers of the request last sent
    version,        \* server: version number of the feed it serves
    before,         \* history: validators and seen_keys when the cycle began
    outcome,        \* history: how the last cycle, or the loop, ended;
                    \* "retrying" while the fetch after a failed cycle is
                    \* in flight
    cycleNew,       \* history: entries treated as new this cycle, in order
    cycleSkipped,   \* history: entries skipped as seen this cycle, in order
    cycleOut,       \* history: notifications printed this cycle
    processed,      \* history: bag of entries ever treated as new
    cancelledAt,    \* history: where the loop stood when it was cancelled
    step,           \* the functions on their own: which calls have been made
    entry_title,    \* title of the entry at hand
    entry_raw,      \* body_raw of the entry at hand, the argument of strip_html
    body_clean,     \* body_clean = strip_html(body_raw)
    result,         \* what the next call returned
    printed         \* the _print_event calls made for the entry at hand

vars == << pc, etag, last_modified, seen_keys, request, version,
           before, outcome, cycleNew, cycleSkipped, cycleOut, processed, cancelledAt,
           step, entry_title, entry_raw, body_clean, result, printed >>

\* The state of the polling loop.
loop == << pc, etag, last_modified, seen_keys, request, version,
           before, outcome, cycleNew, cycleSkipped, cycleOut, processed, cancelledAt >>

\* The state of the functions exercised on their own, which the polling
\* loop leaves alone.
unit == << step, entry_title, entry_raw, body_clean, result, printed >>

\* A cancellation has been delivered to the task.
cancelled == cancelledAt # "nowhere"

watcher == << etag, last_modified, seen_keys >>

server == << version >>

history == << cycleNew, cycleSkipped, cycleOut, processed >>

(***************************************************************************)
(* _check_once: the per-entry loop                                         *)
(***************************************************************************)

\* entry_key without the branch for an empty id or timestamp.
entry_key_NoFallback(e) == e.id \o << "|" >> \o e.updated

\* entry_key built from the id alone whenever there is one.
entry_key_IdOnly(e) == IF e.id # Empty THEN e.id ELSE e.updated

\* The key computed for an entry: f"{entry_id}|{updated}", replaced by
\* entry_id or updated or "" when either of the two is empty.
entry_key(e) ==
    LET key == e.id \o << "|" >> \o e.updated
    IN  IF e.id = Empty \/ e.updated = Empty
        THEN IF e.id # Empty THEN e.id
             ELSE IF e.updated # Empty THEN e.updated ELSE Empty
        ELSE key

\* summary or content or title or ""
body_raw(e) ==
    IF e.summary # Empty THEN e.summary
    ELSE IF e.content # Empty THEN e.content
    ELSE IF e.title # Empty THEN e.title ELSE Empty

\* The tuple detect_product_and_message returns for each entry: called with
\* the title and the cleaned body.
Classified ==
    [e \in EntryPool |->
        detect_product_and_message(e.title, strip_html(body_raw(e)))]

Classify(e) == Classified[e]

\* if product and message
Printable(r) == r.product # NoProduct /\ Truthy(r.message)

\* IsNew without the membership tests: every entry passes.
IsNew_NoTest(key, seen) == TRUE

\* IsNew with the membership tests guarded by the key's truth value: an
\* empty key always passes.
IsNew_EmptyPasses(key, seen) == key = Empty \/ key \notin seen

\* Whether the loop passes the "in self.seen_keys: continue" tests.
IsNew(key, seen) == key \notin seen

\* LoopStart with the set of seen keys built afresh for every document.
LoopStart_Fresh(seen) ==
    [seen |-> {}, new |-> << >>, skipped |-> << >>, out |-> << >>,
     raised |-> FALSE]

\* State of the loop over the entries of one document.
LoopStart(seen) ==
    [seen |-> seen, new |-> << >>, skipped |-> << >>, out |-> << >>,
     raised |-> FALSE]

\* LoopBody with the key added only once the entry has been printed.
LoopBody_AddWhenPrinted(st, e, i, failAt) ==
    LET key == entry_key(e)
        r   == Classify(e)
    IN  IF st.raised THEN st
        ELSE IF ~IsNew(key, st.seen)
        THEN [st EXCEPT !.skipped = Append(@, [pos |-> i, entry |-> e])]
        ELSE LET taken == [st EXCEPT !.new = Append(@, [pos |-> i, entry |-> e])]
             IN  IF ~Printable(r) THEN taken
                 ELSE IF Len(st.out) + 1 = failAt
                      THEN [taken EXCEPT !.raised = TRUE]
                      ELSE [taken EXCEPT !.seen = @ \cup {key},
                                         !.out = Append(@,
                               [pos |-> i, product |-> r.product,
                                message |-> r.message])]

\* One iteration, for the entry at position i of the document.  failAt is
\* the environment's choice of the _print_event call of this cycle that
\* raises (0: none does).
LoopBody(st, e, i, failAt) ==
    LET key == entry_key(e)
        r   == Classify(e)
    IN  IF st.raised THEN st
        ELSE IF ~IsNew(key, st.seen)
        THEN [st EXCEPT !.skipped = Append(@, [pos |-> i, entry |-> e])]
        ELSE LET added == [st EXCEPT !.seen = @ \cup {key},
                                     !.new = Append(@, [pos |-> i, entry |-> e])]
             IN  IF ~Printable(r) THEN added
                 ELSE IF Len(st.out) + 1 = failAt
                      THEN [added EXCEPT !.raised = TRUE]
                      ELSE [added EXCEPT !.out = Append(@,
                               [pos |-> i, product |-> r.product,
                                message |-> r.message])]

\* RunLoop without entries.reverse(): the loop runs in document order.
RECURSIVE RunLoop_NoReverse(_, _, _, _)
RunLoop_NoReverse(st, entries, i, failAt) ==
    IF i = 0 THEN st
    ELSE LoopBody(RunLoop_NoReverse(st, entries, i - 1, failAt),
                  entries[i], i, failAt)

\* entries.reverse() and the for loop: the document lists newest first, the
\* loop runs from its last entry to its first.
RECURSIVE RunLoop(_, _, _, _)
RunLoop(st, entries, i, failAt) ==
    IF i = 0 THEN st
    ELSE RunLoop(LoopBody(st, entries[i], i, failAt), entries, i - 1, failAt)

ProcessEntries(entries, seen, failAt) ==
    RunLoop(LoopStart(seen), entries, Len(entries), failAt)

\* The bag of the entries the loop treated as new.
RECURSIVE BagOfNew(_)
BagOfNew(new) ==
    IF new = << >> THEN EmptyBag
    ELSE SetToBag({Head(new).entry}) (+) BagOfNew(Tail(new))

(***************************************************************************)
(* Init                                                                    *)
(***************************************************************************)

\* Value of the local headers outside the call that owns it.
NoRequest == [inm |-> None, ims |-> None]

\* State after AtomStatusWatcher.__init__, before the first cycle.  The
\* server serves version 1 of the feed.
LoopInit ==
    /\ pc = "start"
    /\ etag = None
    /\ last_modified = None
    /\ seen_keys = {}
    /\ request = NoRequest
    /\ version = 1
    /\ before = [etag |-> None, last_modified |-> None, seen_keys |-> {}]
    /\ outcome = "none"
    /\ cycleNew = << >>
    /\ cycleSkipped = << >>
    /\ cycleOut = << >>
    /\ processed = EmptyBag
    /\ cancelledAt = "nowhere"

\* No function is exercised on its own.
UnitIdle ==
    /\ step = "idle"
    /\ entry_title = Empty
    /\ entry_raw = Empty
    /\ body_clean = Empty
    /\ result = None
    /\ printed = << >>

Init == LoopInit /\ UnitIdle

(***************************************************************************)
(* run_forever and _fetch_if_changed                                       *)
(***************************************************************************)

\* BuildHeaders with a validator tested against None instead of for truth:
\* an empty stored value is sent.
BuildHeaders_NotNone(et, lm) ==
    [inm |-> IF et # None THEN et ELSE None,
     ims |-> IF lm # None THEN lm ELSE None]

\* The conditional headers _fetch_if_changed builds from the validators.
BuildHeaders(et, lm) ==
    [inm |-> IF Truthy(et) THEN et ELSE None,
     ims |-> IF Truthy(lm) THEN lm ELSE None]

\* Outcomes of a cycle that failed before any entry was looked at.
EarlyFailures == {"network_error", "status_error", "read_error", "parse_error"}

\* Outcomes of a cycle that raised an exception other than CancelledError.
Failures == EarlyFailures \cup {"sink_error"}

\* Tick with the sleep of the error handler missing from the loop: a logged
\* error is the end of run_forever.
Tick_NoRetry ==
    /\ pc \in {"start", "sleep"}
    /\ pc' = "await_get"
    /\ request' = BuildHeaders(etag, last_modified)
    /\ before' = [etag |-> etag, last_modified |-> last_modified,
                  seen_keys |-> seen_keys]
    /\ cycleNew' = << >>
    /\ cycleSkipped' = << >>
    /\ cycleOut' = << >>
    /\ outcome' = IF outcome \in Failures THEN "retrying" ELSE "none"
    /\ UNCHANGED << watcher, server, processed, cancelledAt >>
    /\ UNCHANGED unit

\* Tick driven by a timer that does not wait for the cycle before it: a
\* fetch is started while the previous body is still being read.
Tick_Overlapping ==
    /\ pc \in {"start", "sleep", "sleep_err", "await_text"}
    /\ pc' = "await_get"
    /\ request' = BuildHeaders(etag, last_modified)
    /\ before' = [etag |-> etag, last_modified |-> last_modified,
                  seen_keys |-> seen_keys]
    /\ cycleNew' = << >>
    /\ cycleSkipped' = << >>
    /\ cycleOut' = << >>
    /\ outcome' = IF outcome \in Failures THEN "retrying" ELSE "none"
    /\ UNCHANGED << watcher, server, processed, cancelledAt >>
    /\ UNCHANGED unit

\* The loop starts a cycle (at start-up, or when asyncio.sleep returns):
\* _check_once calls _fetch_if_changed, which sends the request.
Tick ==
    /\ pc \in {"start", "sleep", "sleep_err"}
    /\ pc' = "await_get"
    /\ request' = BuildHeaders(etag, last_modified)
    /\ before' = [etag |-> etag, last_modified |-> last_modified,
                  seen_keys |-> seen_keys]
    /\ cycleNew' = << >>
    /\ cycleSkipped' = << >>
    /\ cycleOut' = << >>
    /\ outcome' = IF outcome \in Failures THEN "retrying" ELSE "none"
    /\ UNCHANGED << watcher, server, processed, cancelledAt >>
    /\ UNCHANGED unit

\* The server's test for answering 304: If-None-Match decides when sent,
\* If-Modified-Since otherwise.
ServerNotModified ==
    IF request.inm # None THEN request.inm = TagOf(version)
    ELSE request.ims # None /\ request.ims = StampOf(version)

\* RespNotModified with the headers read before the status is tested.
RespNotModified_HeadersFirst ==
    /\ pc = "await_get"
    /\ ServerNotModified
    /\ pc' = "sleep"
    /\ outcome' = "not_modified"
    /\ request' = NoRequest
    /\ etag' = TagOf(version)
    /\ last_modified' = StampOf(version)
    /\ UNCHANGED << seen_keys, server, before, history, cancelledAt >>
    /\ UNCHANGED unit

\* resp.status == 304: return None, _check_once returns False, sleep.
RespNotModified ==
    /\ pc = "await_get"
    /\ ServerNotModified
    /\ pc' = "sleep"
    /\ outcome' = "not_modified"
    /\ request' = NoRequest
    /\ UNCHANGED << watcher, server, before, history, cancelledAt >>
    /\ UNCHANGED unit

\* session.get raises (network error) or raise_for_status raises (non-2xx):
\* the exception reaches run_forever, which logs it and sleeps.
RespError ==
    /\ pc = "await_get"
    /\ \E kind \in {"network_error", "status_error"} : outcome' = kind
    /\ pc' = "sleep_err"
    /\ request' = NoRequest
    /\ UNCHANGED << watcher, server, before, history, cancelledAt >>
    /\ UNCHANGED unit

\* HeaderOr without the default: resp.headers.get(name).
HeaderOr_NoDefault(header, prior) == header

\* resp.headers.get(name, prior): the header's value, or the prior value
\* when the response has no such header (None stands for its absence).
HeaderOr(header, prior) == IF header = None THEN prior ELSE header

\* The ETag and Last-Modified headers a 2xx response may carry while the
\* server is at version v: each is sent or not, and an ETag may be empty.
ResponseHeaders(v) ==
    {[etag |-> h1, last_modified |-> h2] :
        h1 \in {None, TagOf(v)}, h2 \in {None, StampOf(v)}}
        \cup {[etag |-> Empty, last_modified |-> StampOf(v)]}

\* A 2xx response: the validators are taken from its headers, then the
\* body is awaited.
RespOk ==
    /\ pc = "await_get"
    /\ \E h \in ResponseHeaders(version) :
            /\ etag' = HeaderOr(h.etag, etag)
            /\ last_modified' = HeaderOr(h.last_modified, last_modified)
    /\ request' = NoRequest
    /\ pc' = "await_text"
    /\ outcome' = "none"
    /\ UNCHANGED << seen_keys, server, before, history, cancelledAt >>
    /\ UNCHANGED unit

\* resp.text() raises: logged by run_forever, then sleep.
ReadError ==
    /\ pc = "await_text"
    /\ pc' = "sleep_err"
    /\ outcome' = "read_error"
    /\ UNCHANGED << watcher, request, server, before, history, cancelledAt >>
    /\ UNCHANGED unit

\* resp.text() returns a body that ET.fromstring rejects with ParseError.
ParseError ==
    /\ pc = "await_text"
    /\ \E doc \in Bodies : doc.xml = "malformed"
    /\ pc' = "sleep_err"
    /\ outcome' = "parse_error"
    /\ UNCHANGED << watcher, request, server, before, history, cancelledAt >>
    /\ UNCHANGED unit

\* resp.text() returns a body that parses (any document the server may
\* hold) and the entry loop runs, to its end or to a _print_event call that
\* raises.
Process ==
    /\ pc = "await_text"
    /\ \E doc \in Bodies, failAt \in 0..MaxDocLen :
        /\ doc.xml = "well_formed"
        /\ \E st \in {ProcessEntries(doc.entries, seen_keys, failAt)} :
            /\ failAt > 0 => st.raised
            /\ seen_keys' = st.seen
            /\ cycleNew' = st.new
            /\ cycleSkipped' = st.skipped
            /\ cycleOut' = st.out
            /\ processed' = processed (+) BagOfNew(st.new)
            /\ pc' = IF st.raised THEN "sleep_err" ELSE "sleep"
            /\ outcome' = IF st.raised THEN "sink_error" ELSE "ok"
    /\ UNCHANGED << etag, last_modified, request, server, before, cancelledAt >>
    /\ UNCHANGED unit

\* CancelPropagates with CancelledError caught by the handler that logs.
CancelPropagates_Logged == FALSE

\* Whether a cancellation leaves the loop: CancelledError is re-raised by
\* the first except clause, and is not caught around the sleep that follows
\* a logged error.
CancelPropagates == TRUE

\* The task is cancelled while suspended in session.get, resp.text or
\* asyncio.sleep: CancelledError leaves run_forever.  The record of the
\* last cycle ends with the loop.
Cancel ==
    /\ pc \in {"await_get", "await_text", "sleep", "sleep_err"}
    /\ cancelledAt' = pc
    /\ pc' = IF CancelPropagates THEN "cancelled" ELSE "sleep_err"
    /\ outcome' = IF CancelPropagates THEN "cancelled" ELSE "logged"
    /\ request' = NoRequest
    /\ before' = [etag |-> etag, last_modified |-> last_modified,
                  seen_keys |-> seen_keys]
    /\ cycleNew' = << >>
    /\ cycleSkipped' = << >>
    /\ cycleOut' = << >>
    /\ UNCHANGED << watcher, server, processed >>
    /\ UNCHANGED unit

\* The server publishes a new version of the feed.
FeedChange ==
    /\ version < MaxVersions
    /\ version' = version + 1
    /\ UNCHANGED << pc, watcher, request, before, outcome, history,
                    cancelledAt >>
    /\ UNCHANGED unit

Next ==
    \/ Tick
    \/ RespNotModified
    \/ RespError
    \/ RespOk
    \/ ReadError
    \/ ParseError
    \/ Process
    \/ Cancel
    \/ FeedChange

Spec == Init /\ [][Next]_vars

\* session.get completes.
GetReturns == RespNotModified \/ RespError \/ RespOk

\* resp.text() completes: the steps ReadError, ParseError and Process, the
\* last told by the outcome it records rather than by matching the step
\* against every document.
TextReturns ==
    /\ pc = "await_text"
    /\ ReadError \/ ParseError \/ outcome' \in {"ok", "sink_error"}

\* The event loop resumes the coroutine: asyncio.sleep returns after the poll
\* interval, the HTTP client completes or fails every request and every
\* body read.  Cancellation and feed changes may never happen.
FairSpec ==
    /\ Spec
    /\ WF_vars(Tick)
    /\ WF_vars(GetReturns)
    /\ WF_vars(TextReturns)

(***************************************************************************)
(* The functions on their own                                              *)
(***************************************************************************)

\* Longest title, in words.
MaxTitleWords == 2

\* Longest text handed to strip_html on its own, in pieces.
MaxPieces == 3

\* The words titles are made of: words of the needles in the case a status
\* page writes them, a word no needle has, and a blank.
TitleWords == {
    << "C", "h", "a", "t" >>,
    << "C", "o", "m", "p", "l", "e", "t", "i", "o", "n", "s" >>,
    << "c", "h", "a", "t", "/", "c", "o", "m", "p", "l", "e", "t", "i", "o", "n", "s" >>,
    << "R", "e", "s", "p", "o", "n", "s", "e", "s" >>,
    << "A", "s", "s", "i", "s", "t", "a", "n", "t", "s" >>,
    << "R", "e", "a", "l", "t", "i", "m", "e" >>,
    << "F", "i", "l", "e", "s" >>,
    << "F", "i", "l", "e" >>,
    << "E", "m", "b", "e", "d", "d", "i", "n", "g", "s" >>,
    << "F", "i", "n", "e", "-", "t", "u", "n", "i", "n", "g" >>,
    << "F", "i", "n", "e" >>,
    << "t", "u", "n", "i", "n", "g" >>,
    << "O", "p", "e", "n", "A", "I" >>,
    << "A", "P", "I" >>,
    << "x" >>,
    << " " >>
}

\* " ".join(ws)
RECURSIVE JoinWords(_)
JoinWords(ws) ==
    IF ws = << >> THEN Empty
    ELSE IF Len(ws) = 1 THEN ws[1]
    ELSE ws[1] \o << " " >> \o JoinWords(Tail(ws))

Titles ==
    {JoinWords(ws) : ws \in UNION {[1..n -> TitleWords] : n \in 0..MaxTitleWords}}

\* The summary elements of an entry: none, markup around a needle, a word
\* that completes a needle begun in the title, markup that cleans to nothing,
\* and plain prose.
Summaries == {
    Empty,
    << "<", "b", ">", "O", "p", "e", "n", "A", "I", " ", "A", "P", "I", "<", "/", "b", ">" >>,
    << "c", "o", "m", "p", "l", "e", "t", "i", "o", "n", "s" >>,
    << " ", "&", "n", "b", "s", "p", ";" >>,
    << "i", "n", "v", "e", "s", "t", "i", "g", "a", "t", "i", "n", "g" >>
}

\* The characters of the texts: the delimiters of a tag, the characters of
\* the entity, whitespace and an ordinary letter.
TextAlphabet == {"<", ">", "&", "n", "b", "s", "p", ";", " ", "\n", "x"}

\* The pieces texts are made of: every character, the entity, and the two
\* halves of an entity.
TextPieces ==
    {<< c >> : c \in TextAlphabet}
        \cup {Nbsp, << "&", "n", "b" >>, << "s", "p", ";" >>}

\* "".join(ps)
RECURSIVE JoinPieces(_)
JoinPieces(ps) ==
    IF ps = << >> THEN Empty ELSE Head(ps) \o JoinPieces(Tail(ps))

Texts ==
    {JoinPieces(ps) : ps \in UNION {[1..n -> TextPieces] : n \in 0..MaxPieces}}

\* An entry treated as new is at hand: its title and its summary have been
\* read, and body_raw chosen.  The polling loop is left as constructed.
EntryInit ==
    /\ LoopInit
    /\ step = "entry"
    /\ entry_title \in Titles
    /\ \E s \in Summaries :
            entry_raw = body_raw(Entry(Empty, Empty, entry_title, s, Empty))
    /\ body_clean = None
    /\ result = None
    /\ printed = << >>

\* A text is at hand for strip_html.
TextInit ==
    /\ LoopInit
    /\ step = "entry"
    /\ entry_title = Empty
    /\ entry_raw \in Texts
    /\ body_clean = None
    /\ result = None
    /\ printed = << >>

\* body = strip_html(body_raw)
Clean ==
    /\ step = "entry"
    /\ body_clean' = strip_html(entry_raw)
    /\ step' = "cleaned"
    /\ UNCHANGED << entry_title, entry_raw, result, printed >>
    /\ UNCHANGED loop

\* strip_html applied to what it returned.
CleanAgain ==
    /\ step = "cleaned"
    /\ result' = strip_html(body_clean)
    /\ step' = "cleaned_again"
    /\ UNCHANGED << entry_title, entry_raw, body_clean, printed >>
    /\ UNCHANGED loop

\* product, message = detect_product_and_message(title, body)
Detect ==
    /\ step = "cleaned"
    /\ result' = detect_product_and_message(entry_title, body_clean)
    /\ step' = "detected"
    /\ UNCHANGED << entry_title, entry_raw, body_clean, printed >>
    /\ UNCHANGED loop

\* if product and message: self._print_event(product, message)
Report ==
    /\ step = "detected"
    /\ printed' = IF Printable(result)
                  THEN << [product |-> result.product,
                           message |-> result.message] >>
                  ELSE << >>
    /\ step' = "done"
    /\ UNCHANGED << entry_title, entry_raw, body_clean, result >>
    /\ UNCHANGED loop

EntryNext == Clean \/ Detect \/ Report

\* Lines 117 to 126 of _check_once for one entry treated as new.
EntrySpec == EntryInit /\ [][EntryNext]_vars

TextNext == Clean \/ CleanAgain

\* strip_html applied to a text, and then to its own result.
TextSpec == TextInit /\ [][TextNext]_vars

(***************************************************************************)
(* Properties                                                              *)
(***************************************************************************)

\* The last cycle has ended and the next has not begun.
CycleEnded == pc \in {"sleep", "sleep_err"}

\* Number of times an entry with the given key has been treated as new.
TimesNew(key) ==
    LET same == {e \in BagToSet(processed) : entry_key(e) = key}
    IN  BagCardinality([e \in same |-> processed[e]])

\* C1: over the lifetime of the process no identity key is treated as new
\* more than once: an entry whose key was processed before, in the same
\* cycle or an earlier one, is skipped.
C1_KeyNewAtMostOnce ==
    /\ \A e \in BagToSet(processed) : TimesNew(entry_key(e)) = 1
    /\ \A e \in BagToSet(processed) : entry_key(e) \in seen_keys

\* A later cycle that skipped an entry seen before and took another as new.
C1_Witness ==
    /\ CycleEnded /\ outcome = "ok"
    /\ before.seen_keys # {}
    /\ cycleSkipped # << >>
    /\ cycleNew # << >>

\* C2: a cycle answered 304 Not Modified leaves seen_keys, etag and
\* last_modified as they were when the cycle began, reads no document and
\* runs no dedup, classification or print step.
C2_NotModifiedChangesNothing ==
    CycleEnded /\ outcome = "not_modified" =>
        /\ etag = before.etag
        /\ last_modified = before.last_modified
        /\ seen_keys = before.seen_keys
        /\ cycleNew = << >> /\ cycleSkipped = << >> /\ cycleOut = << >>

\* A 304 cycle that began with a validator stored and keys seen.
C2_Witness ==
    /\ outcome = "not_modified"
    /\ pc = "sleep"
    /\ before.seen_keys # {}
    /\ Truthy(before.etag)

\* C3: a cycle that ends in a network error, a non-2xx status, a failure
\* to read the body or malformed XML leaves the validators as they were when
\* the cycle began, and adds no key to seen_keys.
C3_FailedCycleKeepsState ==
    CycleEnded /\ outcome \in EarlyFailures =>
        /\ etag = before.etag
        /\ last_modified = before.last_modified
        /\ seen_keys = before.seen_keys

\* C4: an error raised while fetching, parsing or processing does not end
\* the loop: the failed cycle leaves the loop in the sleep of the error
\* handler, and at every moment a fetch is started later on unless the task
\* is cancelled; so without a cancellation fetches are started again and
\* again.
C4_ErrorsDoNotStopLoop ==
    /\ [](outcome \in Failures => pc = "sleep_err")
    /\ []<>(pc = "await_get" \/ cancelled)

\* A fetch in flight whose preceding cycle failed.
C4_Witness ==
    /\ pc = "await_get"
    /\ outcome = "retrying"
    /\ ~cancelled

\* A step of the loop other than its cancellation.
Progress ==
    Tick \/ RespNotModified \/ RespError \/ RespOk \/ ReadError \/ ParseError
        \/ Process

\* C5: the loop has ended exactly when a cancellation was delivered, whether
\* it arrived during a fetch, a body read, the wait after a cycle or the wait
\* after a failed cycle; until then the loop can always take another step,
\* and once ended it sends no request, prints nothing and changes nothing.
C5_OnlyCancellationEnds ==
    /\ [](cancelled <=> pc = "cancelled")
    /\ [](~cancelled => ENABLED Progress)
    /\ [][pc = "cancelled" =>
            /\ pc' = "cancelled"
            /\ UNCHANGED << watcher, request, history >>]_vars

\* The loop ended by a cancellation that arrived in the wait after a failed
\* cycle.
C5_Witness ==
    /\ pc = "cancelled"
    /\ cancelledAt = "sleep_err"
    /\ seen_keys # {}

\* Positions of a sequence of records, in order.
Positions(recs) == [k \in 1..Len(recs) |-> recs[k].pos]

\* A sequence of document positions that runs from the end of the document
\* towards its top.
OldestFirst(ps) == \A i, j \in 1..Len(ps) : i < j => ps[i] > ps[j]

\* C6: within a cycle entries are processed and printed in the reverse of
\* document order: of two notifications of a cycle, the one for the entry
\* further down the (newest-first) document is printed first.
C6_ChronologicalOrder ==
    /\ OldestFirst(Positions(cycleOut))
    /\ OldestFirst(Positions(cycleNew))

\* A cycle that printed two notifications.
C6_Witness == CycleEnded /\ Len(cycleOut) >= 2

\* The identity key as the data model defines it.
IdentityKey(id, updated) ==
    IF id # Empty /\ updated # Empty THEN id \o << "|" >> \o updated
    ELSE IF id # Empty THEN id
    ELSE IF updated # Empty THEN updated
    ELSE Empty

\* C7: the key tested against and added to seen_keys is id, "|" and
\* updated when both are non-empty, else the non-empty one of the two, else
\* the empty string: seen_keys holds exactly these keys of the entries treated
\* as new, and no entry treated as new in a cycle had its key in seen_keys when
\* the cycle began.
C7_IdentityKeyDerivation ==
    /\ seen_keys = {IdentityKey(e.id, e.updated) : e \in BagToSet(processed)}
    /\ CycleEnded =>
        /\ \A k \in 1..Len(cycleNew) :
            LET e == cycleNew[k].entry
            IN  IdentityKey(e.id, e.updated) \notin before.seen_keys
        /\ \A k \in 1..Len(cycleSkipped) :
            LET e == cycleSkipped[k].entry
            IN  IdentityKey(e.id, e.updated) \in seen_keys

\* Entries of three of the shapes have been treated as new: both fields
\* set, only the timestamp set, neither set.
C7_Witness ==
    /\ \E e \in BagToSet(processed) : e.id # Empty /\ e.updated # Empty
    /\ \E e \in BagToSet(processed) : e.id = Empty /\ e.updated # Empty
    /\ \E e \in BagToSet(processed) : e.id = Empty /\ e.updated = Empty

\* The entries without id and timestamp.
Keyless(e) == e.id = Empty /\ e.updated = Empty

\* C8: over the lifetime of the process at most one entry without id and
\* timestamp is treated as new; every later one is skipped.
C8_OneKeylessEntry ==
    LET keyless == {e \in BagToSet(processed) : Keyless(e)}
    IN  BagCardinality([e \in keyless |-> processed[e]]) <= 1

\* A cycle that skipped a keyless entry other than the one treated as new
\* before.
C8_Witness ==
    /\ CycleEnded
    /\ \E k \in 1..Len(cycleSkipped) :
        /\ Keyless(cycleSkipped[k].entry)
        /\ \E p \in BagToSet(processed) :
            Keyless(p) /\ p # cycleSkipped[k].entry

\* p is another version of e: the same id under a different timestamp.
OtherVersion(p, e) ==
    /\ p.id = e.id
    /\ p.updated # Empty
    /\ p.updated # e.updated

PrintedAt(pos) == \E k \in 1..Len(cycleOut) : cycleOut[k].pos = pos

\* C10 as claimed: every key added to seen_keys belongs to an entry for
\* which a notification was printed.
C10_KeyOnlyIfReported ==
    CycleEnded =>
        \A key \in seen_keys \ before.seen_keys :
            \E k \in 1..Len(cycleNew) :
                /\ entry_key(cycleNew[k].entry) = key
                /\ PrintedAt(cycleNew[k].pos)

\* C10 as amended: every key in seen_keys belongs to an entry that was
\* treated as new and classified; a notification was printed for it exactly
\* when the classifier returned a label and a non-empty message and the
\* print did not raise.
C10_KeyOnlyIfClassified ==
    /\ seen_keys = {entry_key(e) : e \in BagToSet(processed)}
    /\ CycleEnded =>
        /\ seen_keys \ before.seen_keys =
                {entry_key(cycleNew[k].entry) : k \in 1..Len(cycleNew)}
        /\ \A k \in 1..Len(cycleNew) :
            PrintedAt(cycleNew[k].pos) <=>
                /\ Printable(Classify(cycleNew[k].entry))
                /\ ~(outcome = "sink_error" /\ k = Len(cycleNew))

\* A cycle that ended well with a key added for an entry no notification
\* was printed for.
C10_Witness ==
    /\ CycleEnded /\ outcome = "ok"
    /\ \E k \in 1..Len(cycleNew) : ~PrintedAt(cycleNew[k].pos)

\* The loop reached the entries of a document: the cycle ran to the end of
\* the document or to a print that raised.
LoopRan == CycleEnded /\ outcome \in {"ok", "sink_error"}

\* An entry further down the document than rec, with the same key, is among
\* the records recs.
SameKeyBelow(rec, recs) ==
    \E j \in 1..Len(recs) :
        /\ recs[j].pos > rec.pos
        /\ entry_key(recs[j].entry) = entry_key(rec.entry)

\* C11 as claimed: in a cycle that began with seen_keys empty and read a
\* document, no entry of the document is skipped.
C11_FirstCycleAllNew ==
    LoopRan /\ before.seen_keys = {} => cycleSkipped = << >>

\* C11 as amended: in a cycle that began with seen_keys empty, an entry the
\* loop reached is treated as new exactly when no entry further down the
\* document has the same identity key; so every entry of a document whose
\* keys are pairwise distinct is treated as new, and of the entries that share
\* a key only the oldest is.
C11_FirstCycleNewUnlessRepeated ==
    LoopRan /\ before.seen_keys = {} =>
        /\ \A k \in 1..Len(cycleSkipped) :
                SameKeyBelow(cycleSkipped[k], cycleNew)
        /\ \A k \in 1..Len(cycleNew) :
                ~SameKeyBelow(cycleNew[k], cycleNew)

\* A first cycle whose document of two entries was treated as new whole.
C11_Witness ==
    /\ CycleEnded /\ outcome = "ok"
    /\ before.seen_keys = {}
    /\ Len(cycleNew) = 2
    /\ cycleSkipped = << >>

\* C12: no step removes a key from seen_keys, whether the step belongs to a
\* cycle that succeeds, is answered 304, fails or is cancelled.
C12_SeenKeysOnlyGrow == [][seen_keys \subseteq seen_keys']_vars

\* A later cycle has added keys to those of an earlier one.
C12_Witness ==
    /\ CycleEnded
    /\ before.seen_keys # {}
    /\ before.seen_keys # seen_keys
    /\ before.seen_keys \subseteq seen_keys

\* The haystack of the classifier: title, separator and body, lowercased.
Haystack == Lower(entry_title \o << " " >> \o body_clean)

\* The rows of the table whose needle occurs in a haystack.
Rows(hay) ==
    {i \in 1..Len(PRODUCT_PATTERNS) : Contains(hay, PRODUCT_PATTERNS[i][1])}

ChatNeedle == PRODUCT_PATTERNS[2][1]

OpenAiNeedle == PRODUCT_PATTERNS[12][1]

\* C13: the label returned is that of the first row of the table whose
\* needle occurs in the haystack; with no such row it is "OpenAI API" when
\* "api" occurs in the haystack, and nothing is returned otherwise; with both
\* "chat completions" and "openai api" in the haystack the label is that of
\* Chat Completions.
C13_FirstNeedleDecides ==
    step = "detected" =>
        \A hay \in {Haystack} : \A found \in {Rows(hay)} :
            /\ \A i \in found :
                (\A j \in found : i <= j) =>
                    result.product = PRODUCT_PATTERNS[i][2]
            /\ found = {} /\ Contains(hay, ApiNeedle) =>
                    result.product = "OpenAI API"
            /\ found = {} /\ ~Contains(hay, ApiNeedle) =>
                    result.product = NoProduct /\ result.message = None
            /\ Contains(hay, ChatNeedle) /\ Contains(hay, OpenAiNeedle) =>
                    result.product = "OpenAI API - Chat Completions"

\* The classifier has returned the Chat Completions label for a haystack
\* that holds "chat completions" and "openai api".
C13_Witness ==
    /\ step = "detected"
    /\ Contains(Haystack, ChatNeedle)
    /\ Contains(Haystack, OpenAiNeedle)
    /\ result.product = "OpenAI API - Chat Completions"

\* A cycle is in flight: its request is out, or its body is being read and
\* its entries processed.
InCycle == pc \in {"await_get", "await_text"}

\* The loop is in the wait between two cycles.
Waiting == pc \in {"sleep", "sleep_err"}

\* C14: a fetch is started only at start-up or out of the wait that follows
\* the cycle before it; a cycle in flight leaves only into that wait (its
\* sequence completed or failed) or into cancellation; and a request is out
\* only while the loop awaits its response.
C14_OneCycleAtATime ==
    /\ [][pc # "await_get" /\ pc' = "await_get" =>
            pc = "start" \/ Waiting]_vars
    /\ [][InCycle /\ ~InCycle' => Waiting' \/ pc' = "cancelled"]_vars
    /\ [](request # NoRequest => pc = "await_get")

\* The body of a later cycle is being read: the cycle before it processed
\* entries and was followed by a wait.
C14_Witness ==
    /\ pc = "await_text"
    /\ before.seen_keys # {}
    /\ ~cancelled

\* C15: a 2xx response sets each validator on its own: to the header the
\* response carries, and to the value held before when the response has no
\* such header; no other step changes a validator.
C15_ValidatorsFollowHeaders ==
    /\ [][pc = "await_get" /\ pc' = "await_text" =>
            \E h \in ResponseHeaders(version) :
                /\ etag' = IF h.etag # None THEN h.etag ELSE etag
                /\ last_modified' = IF h.last_modified # None
                                    THEN h.last_modified ELSE last_modified]_vars
    /\ [][etag' # etag \/ last_modified' # last_modified =>
            pc = "await_get" /\ pc' = "await_text"]_vars

\* The entity tag is that of an earlier response, the last-modified that of
\* a later response which carried no ETag.
C15_Witness ==
    /\ etag = TagOf(1)
    /\ last_modified = StampOf(2)

\* C16: strip_html applied to its own result returns that result.
C16_NormalizerIdempotent ==
    step = "cleaned_again" => result = body_clean

\* strip_html was applied twice to a text that holds the entity and that
\* the first application changed into a non-empty result.
C16_Witness ==
    /\ step = "cleaned_again"
    /\ Contains(entry_raw, Nbsp)
    /\ body_clean # Empty
    /\ body_clean # entry_raw

\* C17: for an entry treated as new, _print_event is called once, with the
\* label and the message, when the classifier returned a label, and not at all
\* when it returned none; the message of a label is not empty: it is the
\* trimmed body, or the trimmed title when the body is empty.
C17_OnePrintPerLabel ==
    step = "done" =>
        IF result.product = NoProduct
        THEN printed = << >>
        ELSE /\ printed = << [product |-> result.product,
                              message |-> result.message] >>
             /\ result.message # Empty /\ result.message # None
             /\ result.message = IF Strip(body_clean) # Empty
                                 THEN Strip(body_clean)
                                 ELSE Strip(entry_title)

\* A notification was printed for an entry whose body cleaned to nothing:
\* its message is the title.
C17_Witness ==
    /\ step = "done"
    /\ Len(printed) = 1
    /\ body_clean = Empty
    /\ printed[1].message = Strip(entry_title)

\* An id that is set and does not contain the separator of the key.
PlainId(e) == e.id # Empty /\ \A i \in 1..Len(e.id) : e.id[i] # "|"

\* The entries skipped in the last cycle.
SkippedEntries == {cycleSkipped[k].entry : k \in 1..Len(cycleSkipped)}

\* C18 as claimed: an entry is skipped only if an entry with the same id
\* and the same timestamp was processed before.
C18_KeyUnique ==
    \A e \in SkippedEntries :
        \E p \in BagToSet(processed) : p.id = e.id /\ p.updated = e.updated

\* C18 as amended: an entry is skipped only if an entry with the same key
\* was processed before, and two entries whose ids are set and free of the
\* separator have the same key only if they have the same id and the same
\* timestamp.
C18_KeyUniqueForPlainIds ==
    /\ \A e \in SkippedEntries :
        \E p \in BagToSet(processed) : entry_key(p) = entry_key(e)
    /\ \A e \in SkippedEntries, p \in BagToSet(processed) :
        PlainId(e) /\ PlainId(p) /\ entry_key(p) = entry_key(e) =>
            p.id = e.id /\ p.updated = e.updated

\* A cycle skipped an entry with a plain id that was processed before, while
\* another version of it had been processed too.
C18_Witness ==
    /\ CycleEnded
    /\ \E e \in SkippedEntries, p \in BagToSet(processed) :
        /\ PlainId(e) /\ e \in BagToSet(processed)
        /\ OtherVersion(p, e)

\* C19: while a request is out, it carries If-None-Match with the stored
\* entity tag exactly when one is stored and non-empty, and If-Modified-Since
\* with the stored last-modified exactly when one is stored and non-empty;
\* the request sent at start-up carries neither.
C19_RequestCarriesValidators ==
    /\ [](pc = "await_get" =>
            /\ Truthy(etag) => request.inm = etag
            /\ ~Truthy(etag) => request.inm = None
            /\ Truthy(last_modified) => request.ims = last_modified
            /\ ~Truthy(last_modified) => request.ims = None)
    /\ [][pc = "start" /\ pc' = "await_get" =>
            request'.inm = None /\ request'.ims = None]_vars

\* A request is out that carries If-Modified-Since but no If-None-Match,
\* the stored entity tag being the empty string.
C19_Witness ==
    /\ pc = "await_get"
    /\ etag = Empty
    /\ request.inm = None
    /\ Truthy(last_modified) /\ request.ims = last_modified

\* The outcomes of a cycle that failed after the server answered 2xx.
ReadFailures == {"read_error", "parse_error"}

\* C20: once a cycle has failed after a 2xx response, no entry having been
\* processed yet, and the feed changes no more, then (unless the task is
\* cancelled) the next fetch is followed by a cycle that reads a document
\* and processes its entries, or by another failed cycle; the loop is not
\* answered 304 for ever.
C20_FailedReadIsRetried ==
    [](outcome \in ReadFailures /\ processed = EmptyBag
            /\ version = MaxVersions =>
        <>(\/ cancelled
           \/ /\ outcome = "retrying"
              /\ <>(\/ cancelled
                    \/ outcome \in EarlyFailures
                    \/ outcome \in {"ok", "sink_error"})))

====
